---- MODULE Spec2Model ----
(***************************************************************************)
(* Model of src/src/visualization.py: the two chart entry points           *)
(* generate_QC_graph and generate_westguard_graph, each run statement      *)
(* block by statement block against the ambient pyplot figure.             *)
(*                                                                         *)
(* y coordinates on the figure are kept in units of 1/400 so that the      *)
(* 5% autoscale margins of the axes stay integers.                         *)
(***************************************************************************)
EXTENDS Integers, Sequences, FiniteSets

VARIABLES
    pc,                   \* position of the running call
    fn,                   \* entry point that was called
    df,                   \* the DataFrame argument: a sequence of rows
    mean, sd,             \* control-line arguments
    ref_lower, ref_upper, \* reference range arguments (overlay only)
    warnings, failures,   \* optional flag Series: [given, flags]
    grouped,              \* local (overlay only): <<[name, group]>> per group
    qc_values_list,       \* local
    patient_results_list, \* local (overlay only)
    qc_labels,            \* local: <<day, value>> per run
    colors,               \* local
    canvas,               \* drawing calls made on the current figure, in order
    ydata,                \* y values (1/400 units) inside the axes' data limits
    view_lim,             \* current y view limits <<lo, hi>> (1/400 units)
    box_colors,           \* face colours given to the box patches
    scatter_c,            \* colours of the drawn QC markers
    spans,                \* shaded bands <<lo, hi>> (1/400 units)
    y_lim,                \* local <<y_min, y_max>> read at line 142
    result                \* "none", "returned" or "ValueError"

vars == <<pc, fn, df, mean, sd, ref_lower, ref_upper, warnings, failures,
          grouped, qc_values_list, patient_results_list, qc_labels, colors, canvas,
          ydata, view_lim, box_colors, scatter_c, spans, y_lim, result>>

args == <<fn, df, mean, sd, ref_lower, ref_upper, warnings, failures>>

\* ------------------------------------------------------------ input bounds
MaxRows == 2
MaxFlags == 2

Timestamps == {1, 2}
QCValues == {10, 12}
PatientResults == {6, 14}
Means == {10}
SDs == {-1, 0, 1}
RefRanges == {<<8, 12>>}

SeqsUpTo(S, n) == UNION {[1..k -> S] : k \in 0..n}

None == [given |-> FALSE, flags |-> <<>>]
Series(s) == [given |-> TRUE, flags |-> s]
OptFlags == {None} \cup {Series(s) : s \in SeqsUpTo(BOOLEAN, MaxFlags)}

QCRows == [result : QCValues]
WestguardRows == [qc_timestamp : Timestamps, qc_value : QCValues,
                  patient_result : PatientResults]

\* ------------------------------------------------------------ helpers
Min(a, b) == IF a <= b THEN a ELSE b
Abs(a) == IF a < 0 THEN 0 - a ELSE a
SetMin(S) == CHOOSE x \in S : \A y \in S : x <= y
SetMax(S) == CHOOSE x \in S : \A y \in S : y <= x
Range(s) == {s[i] : i \in DOMAIN s}
Scaled(y) == 400 * y

\* variant of Color that tests the warning flag before the failure flag
ColorWarnFirst(fail, warn) ==
    IF warn THEN "#FFA500" ELSE IF fail THEN "#FF0000" ELSE "C0"

\* colours[i] for one (fail, warn) pair of the zip
Color(fail, warn) == IF fail THEN "#FF0000" ELSE IF warn THEN "#FFA500" ELSE "C0"

\* [Color(fail, warn) for fail, warn in zip(failures, warnings)]:
\* zip stops at the shorter of its two arguments
ZipColors(f, w) == [i \in 1..Min(Len(f), Len(w)) |-> Color(f[i], w[i])]

\* the if/else that builds `colors`
Colors(w, f, n) ==
    IF w.given /\ f.given
    THEN ZipColors(f.flags, w.flags)
    ELSE [i \in 1..n |-> "C0"]

\* [f"Day {i+1}\nQC: {qc_val:.1f}" for i, qc_val in enumerate(qc_values_list)]
Labels(values) == [i \in 1..Len(values) |-> <<i, values[i]>>]

\* variant of ControlLines that stops at the 2 SD lines
ControlLinesTo2SD(m, s) == <<m, m + s, m - s, m + 2 * s, m - 2 * s>>

\* the seven y values of the axhline calls
ControlLines(m, s) == <<m, m + s, m - s, m + 2 * s, m - 2 * s, m + 3 * s, m - 3 * s>>

\* Axes.scatter accepts a colour list of length 0, 1 or len(x); anything else
\* raises ValueError
ScatterAccepts(nc, n) == nc \in {0, 1, n}

\* y view limits of an autoscaled axes holding data limits over Y:
\* a singular interval is widened by 5% of its magnitude, then a 5% margin
\* of the interval is added on each side
Autoscale(Y) ==
    IF Y = {} THEN <<0, Scaled(1)>>
    ELSE LET lo == SetMin(Y)
             hi == SetMax(Y)
             x0 == IF lo = hi THEN (IF lo = 0 THEN -20 ELSE lo - Abs(lo) \div 20) ELSE lo
             x1 == IF lo = hi THEN (IF hi = 0 THEN 20 ELSE hi + Abs(hi) \div 20) ELSE hi
             delta == (x1 - x0) \div 20
         IN  <<x0 - delta, x1 + delta>>

\* ------------------------------------------------------------ groupby
\* df.groupby('qc_timestamp'): the keys present, in ascending order (sort=True)
RECURSIVE SortedSeq(_)
SortedSeq(S) ==
    IF S = {} THEN <<>>
    ELSE LET m == SetMin(S) IN <<m>> \o SortedSeq(S \ {m})

\* variant of GroupKeys for groupby(sort=False): the keys in the order of
\* their first occurrence in the rows
RECURSIVE FirstSeenKeys(_)
FirstSeenKeys(rows) ==
    IF rows = <<>> THEN <<>>
    ELSE LET front == FirstSeenKeys(SubSeq(rows, 1, Len(rows) - 1))
             k == rows[Len(rows)].qc_timestamp
         IN  IF k \in Range(front) THEN front ELSE Append(front, k)

GroupKeys(rows) == SortedSeq({rows[i].qc_timestamp : i \in DOMAIN rows})

\* the rows of one group, in their original order
GroupRows(rows, key) == SelectSeq(rows, LAMBDA r : r.qc_timestamp = key)

\* grouped = df.groupby('qc_timestamp'), as the (name, group) pairs it iterates
GroupBy(rows) ==
    LET keys == GroupKeys(rows)
    IN  [i \in 1..Len(keys) |-> [name |-> keys[i], group |-> GroupRows(rows, keys[i])]]

\* variant of FirstQCValue that reads the group's last row (iloc[-1])
LastQCValue(group) == group[Len(group)].qc_value

\* group['qc_value'].iloc[0]
FirstQCValue(group) == group[1].qc_value

\* group['patient_result'].values
PatientValues(group) == [j \in 1..Len(group) |-> group[j].patient_result]

\* ------------------------------------------------------------ initial state
Init ==
    /\ pc = "idle"
    /\ fn = "none"
    /\ df = <<>>
    /\ mean = 0 /\ sd = 0 /\ ref_lower = 0 /\ ref_upper = 0
    /\ warnings = None /\ failures = None
    /\ grouped = <<>>
    /\ qc_values_list = <<>>
    /\ patient_results_list = <<>>
    /\ qc_labels = <<>>
    /\ colors = <<>>
    /\ canvas = <<>>
    /\ ydata = {}
    /\ view_lim = Autoscale({})
    /\ box_colors = <<>>
    /\ scatter_c = <<>>
    /\ spans = <<>>
    /\ y_lim = <<0, 0>>
    /\ result = "none"

locals == <<grouped, qc_values_list, patient_results_list, qc_labels, colors, y_lim>>
figure == <<canvas, ydata, view_lim, box_colors, scatter_c, spans>>

\* a drawing call that adds the y values Y to the data limits
Draw(ops, Y) ==
    /\ canvas' = canvas \o ops
    /\ ydata' = ydata \cup Y
    /\ view_lim' = Autoscale(ydata \cup Y)

\* ------------------------------------------------------------ generate_QC_graph
QC_Call ==
    /\ pc = "idle"
    /\ \E rows \in SeqsUpTo(QCRows, MaxRows), m \in Means, s \in SDs,
          w \in OptFlags, f \in OptFlags :
          /\ df' = rows /\ mean' = m /\ sd' = s
          /\ warnings' = w /\ failures' = f
    /\ fn' = "generate_QC_graph"
    /\ pc' = "qc_prepare"
    /\ UNCHANGED <<ref_lower, ref_upper, locals, figure, result>>

\* lines 26-35
QC_Prepare ==
    /\ pc = "qc_prepare"
    /\ LET values == [i \in 1..Len(df) |-> df[i].result]
       IN  /\ qc_values_list' = values
           /\ qc_labels' = Labels(values)
           /\ colors' = Colors(warnings, failures, Len(values))
    /\ pc' = "qc_draw"
    /\ UNCHANGED <<args, grouped, patient_results_list, y_lim, figure, result>>

\* lines 37-54: figure, control lines, connecting line, then the scatter,
\* which raises when it rejects the colour list
QC_Draw ==
    /\ pc = "qc_draw"
    /\ LET lines == {Scaled(y) : y \in Range(ControlLines(mean, sd))}
           points == {Scaled(y) : y \in Range(qc_values_list)}
       IN  IF ScatterAccepts(Len(colors), Len(qc_values_list))
           THEN /\ Draw(<<"figure", "axhline", "plot", "scatter">>, lines \cup points)
                /\ scatter_c' = colors
                /\ pc' = "qc_finish"
                /\ UNCHANGED result
           ELSE /\ Draw(<<"figure", "axhline", "plot">>, lines \cup points)
                /\ result' = "ValueError"
                /\ pc' = "done"
                /\ UNCHANGED scatter_c
    /\ UNCHANGED <<args, locals, box_colors, spans>>

\* lines 57-75
QC_Finish ==
    /\ pc = "qc_finish"
    /\ Draw(<<"legend", "show">>, {})
    /\ result' = "returned"
    /\ pc' = "done"
    /\ UNCHANGED <<args, locals, box_colors, scatter_c, spans>>

\* ------------------------------------------------------------ generate_westguard_graph
WG_Call ==
    /\ pc = "idle"
    /\ \E rows \in SeqsUpTo(WestguardRows, MaxRows), m \in Means, s \in SDs,
          r \in RefRanges, w \in OptFlags, f \in OptFlags :
          /\ df' = rows /\ mean' = m /\ sd' = s
          /\ ref_lower' = r[1] /\ ref_upper' = r[2]
          /\ warnings' = w /\ failures' = f
    /\ fn' = "generate_westguard_graph"
    /\ pc' = "wg_group"
    /\ UNCHANGED <<locals, figure, result>>

\* lines 98-105
WG_Group ==
    /\ pc = "wg_group"
    /\ LET g == GroupBy(df)
           values == [i \in 1..Len(g) |-> FirstQCValue(g[i].group)]
       IN  /\ grouped' = g
           /\ qc_values_list' = values
           /\ patient_results_list' = [i \in 1..Len(g) |-> PatientValues(g[i].group)]
           /\ qc_labels' = Labels(values)
    /\ pc' = "wg_boxplot"
    /\ UNCHANGED <<args, colors, y_lim, figure, result>>

\* lines 108-123: figure, control lines, then the box plots. boxplot of an
\* empty list of datasets raises ValueError (one empty dataset against zero
\* positions); otherwise each box spans its samples (whiskers and fliers
\* reach the smallest and the largest one)
WG_Boxplot ==
    /\ pc = "wg_boxplot"
    /\ LET lines == {Scaled(y) : y \in Range(ControlLines(mean, sd))}
           samples == UNION {{Scaled(y) : y \in Range(patient_results_list[i])} :
                               i \in DOMAIN patient_results_list}
       IN  IF Len(patient_results_list) = 0
           THEN /\ Draw(<<"figure", "axhline">>, lines)
                /\ result' = "ValueError"
                /\ pc' = "done"
           ELSE /\ Draw(<<"figure", "axhline", "boxplot">>, lines \cup samples)
                /\ pc' = "wg_scatter"
                /\ UNCHANGED result
    /\ UNCHANGED <<args, locals, box_colors, scatter_c, spans>>

\* for patch, color in zip(bp['boxes'], colors): stops at the shorter one
BoxColors(c, n) == SubSeq(c, 1, Min(Len(c), n))

\* lines 126-139: colours, box faces, connecting line, then the scatter
WG_Scatter ==
    /\ pc = "wg_scatter"
    /\ LET c == Colors(warnings, failures, Len(patient_results_list))
           points == {Scaled(y) : y \in Range(qc_values_list)}
       IN  /\ colors' = c
           /\ box_colors' = BoxColors(c, Len(patient_results_list))
           /\ IF ScatterAccepts(Len(c), Len(qc_values_list))
              THEN /\ Draw(<<"plot", "scatter">>, points)
                   /\ scatter_c' = c
                   /\ pc' = "wg_shade"
                   /\ UNCHANGED result
              ELSE /\ Draw(<<"plot">>, points)
                   /\ result' = "ValueError"
                   /\ pc' = "done"
                   /\ UNCHANGED scatter_c
    /\ UNCHANGED <<args, grouped, qc_values_list, patient_results_list, qc_labels,
                   y_lim, spans>>

\* the two axhspan bands of lines 143-144, given the limits read at line 142
Bands(lim, lower, upper) == << <<Scaled(upper), lim[2]>>, <<lim[1], Scaled(lower)>> >>

\* lines 142-144: the bands enter the data limits and the axes autoscale again
WG_Shade ==
    /\ pc = "wg_shade"
    /\ y_lim' = view_lim
    /\ spans' = Bands(view_lim, ref_lower, ref_upper)
    /\ Draw(<<"axhspan", "axhspan">>,
            {Scaled(ref_upper), view_lim[2], view_lim[1], Scaled(ref_lower)})
    /\ pc' = "wg_finish"
    /\ UNCHANGED <<args, grouped, qc_values_list, patient_results_list, qc_labels,
                   colors, box_colors, scatter_c, result>>

\* variant of FinalYlim without line 154: the autoscaled limits stay
AutoscaledYlim(lim, current) == current

\* plt.ylim(y_min, y_max) at line 154 pins the view limits
FinalYlim(lim, current) == lim

\* lines 147-160
WG_Finish ==
    /\ pc = "wg_finish"
    /\ canvas' = canvas \o <<"legend", "ylim", "show">>
    /\ view_lim' = FinalYlim(y_lim, view_lim)
    /\ result' = "returned"
    /\ pc' = "done"
    /\ UNCHANGED <<args, locals, ydata, box_colors, scatter_c, spans>>

Next ==
    \/ QC_Call
    \/ QC_Prepare
    \/ QC_Draw
    \/ QC_Finish
    \/ WG_Call
    \/ WG_Group
    \/ WG_Boxplot
    \/ WG_Scatter
    \/ WG_Shade
    \/ WG_Finish

Spec == Init /\ [][Next]_vars

\* ------------------------------------------------------------ properties
QC == "generate_QC_graph"
WG == "generate_westguard_graph"
Done == pc = "done"
Returned == result = "returned"
Failed == result = "ValueError"
RunCount == Len(qc_values_list)
BothGiven == warnings.given /\ failures.given
Drew(op) == op \in Range(canvas)
ShowCount == Cardinality({i \in DOMAIN canvas : canvas[i] = "show"})

Severity(color) ==
    IF color = "#FF0000" THEN "Failure"
    ELSE IF color = "#FFA500" THEN "Warning" ELSE "Pass"

FlagSeverity(i) ==
    IF failures.flags[i] THEN "Failure"
    ELSE IF warnings.flags[i] THEN "Warning" ELSE "Pass"

\* C1: when warnings and failures are both supplied with length equal to the
\* run count, the chart shows run i as Failure if failures[i], otherwise as
\* Warning if warnings[i], otherwise as Pass: on the markers of both charts
\* and on the boxes of the overlay chart.
C1_FlagSeverity ==
    (Returned /\ BothGiven /\ Len(warnings.flags) = RunCount
              /\ Len(failures.flags) = RunCount)
    => /\ Len(scatter_c) = RunCount
       /\ \A i \in 1..RunCount : Severity(scatter_c[i]) = FlagSeverity(i)
       /\ fn = WG => /\ Len(box_colors) = RunCount
                     /\ \A i \in 1..RunCount : Severity(box_colors[i]) = FlagSeverity(i)

C1_Witness ==
    /\ Returned /\ fn = WG /\ RunCount = 2
    /\ warnings.flags = <<TRUE, TRUE>> /\ failures.flags = <<TRUE, FALSE>>
    /\ warnings.given /\ failures.given

\* C2: a call that supplies exactly one of warnings / failures ends in an
\* error and never in a chart.
C2_OneFlagIsError ==
    (Done /\ warnings.given # failures.given) => Failed

\* first row of df that carries timestamp k
FirstRow(k) ==
    df[CHOOSE j \in DOMAIN df :
         /\ df[j].qc_timestamp = k
         /\ \A h \in 1..(j - 1) : df[h].qc_timestamp # k]

Grouped == fn = WG /\ pc \notin {"idle", "wg_group"}
GroupNames == [i \in DOMAIN grouped |-> grouped[i].name]

C4_FirstValueWins ==
    Grouped =>
       /\ Len(qc_values_list) = Len(grouped)
       /\ \A i \in DOMAIN grouped :
             qc_values_list[i] = FirstRow(grouped[i].name).qc_value

C4_Witness ==
    /\ Grouped /\ Len(grouped) = 1 /\ Len(df) = 2
    /\ df[1].qc_value = 10 /\ df[2].qc_value = 12

\* C5: a call with no rows ends in an error and shows no chart.
C5_EmptyIsError ==
    (Done /\ Len(df) = 0) => (Failed /\ ~Drew("show"))

\* C6: a call with sd <= 0 draws no control lines and ends in an error.
C6_NonPositiveSdIsError ==
    (fn # "none" /\ sd <= 0) => (~Drew("axhline") /\ (Done => Failed))

\* C7: a call that supplies both warnings and failures, one of them with a
\* length other than the run count, ends in an error.
C7_LengthMismatchIsError ==
    (Done /\ BothGiven
          /\ (Len(warnings.flags) # RunCount \/ Len(failures.flags) # RunCount))
    => Failed

Contains(lim, y) == lim[1] <= Scaled(y) /\ Scaled(y) <= lim[2]

\* C8: the final axis extent of a returned overlay chart contains
\* mean - 3 sd and mean + 3 sd, every patient sample and every group qc_value.
C8_ExtentContainsAll ==
    (Returned /\ fn = WG) =>
       /\ Contains(view_lim, mean - 3 * sd)
       /\ Contains(view_lim, mean + 3 * sd)
       /\ \A i \in DOMAIN df : Contains(view_lim, df[i].patient_result)
       /\ \A i \in DOMAIN qc_values_list : Contains(view_lim, qc_values_list[i])

C8_Witness ==
    /\ Returned /\ fn = WG /\ sd = 1
    /\ \A i \in DOMAIN df : df[i].patient_result = 14 /\ df[i].qc_value = 10

\* C9: a call that ends in an error has made no drawing call, and a call
\* that returns has shown the chart exactly once.
C9_NoDrawBeforeValidation ==
    /\ Failed => canvas = <<>>
    /\ Returned => ShowCount = 1

\* C10: in a returned overlay chart the two bands are
\* [ref_upper, axis max] and [axis min, ref_lower] of the final axis extent,
\* and the final extent is the one the axes had before the bands were added.
C10_BandsFillExtent ==
    (Returned /\ fn = WG) =>
       /\ spans = << <<Scaled(ref_upper), view_lim[2]>>,
                     <<view_lim[1], Scaled(ref_lower)>> >>
       /\ view_lim = y_lim

C10_Witness ==
    /\ Returned /\ fn = WG /\ Len(spans) = 2
    /\ Drew("axhspan") /\ Drew("ylim")

====
